---- MODULE Spec2Model ----
(***************************************************************************)
(* State-machine model of the ioBroker "unfolded" adapter.                 *)
(*                                                                         *)
(* The repository holds two adapter variants:                              *)
(*   - src/main.js          the WebSocket adapter (class Unfolded)         *)
(*   - src/unnamed/part_000 the one-shot REST adapter (UnfoldedAdapter)    *)
(* A run of the model is a run of one of the two (variable variant).       *)
(*                                                                         *)
(* Text is modelled as a sequence of tokens; the token "." is the          *)
(* separator that String.prototype.split(".") cuts at.                     *)
(***************************************************************************)
EXTENDS Integers, Sequences, FiniteSets, TLC

\* ------------------------------------------------------------------ bounds
\* socket objects that can be alive (not yet closed) at once
MaxSock == 2
\* timer handles that can be pending at once
MaxTimers == 2
\* frames of one receive chunk that arrive while earlier handlers are suspended
MaxTasks == 1
\* writes the user makes in a run
MaxWrites == 1
\* entity records in one "entities" response
MaxEntities == 2
\* outbound requests of one connection that the trace `wire` keeps
MaxWire == 2

SockIds == 1..MaxSock
TimerIds == 1..MaxTimers

\* ------------------------------------------------------------------ text
Dot == "."
\* the JavaScript value undefined (distinct from every text)
Undefined == <<"#undefined">>

\* `${v}` : template interpolation of a text or of undefined
ToText(v) == IF v = Undefined THEN <<"undefined">> ELSE v

RECURSIVE SplitAcc(_, _, _)
SplitAcc(s, cur, acc) ==
    IF s = <<>> THEN Append(acc, cur)
    ELSE IF Head(s) = Dot THEN SplitAcc(Tail(s), <<>>, Append(acc, cur))
    ELSE SplitAcc(Tail(s), Append(cur, Head(s)), acc)

\* s.split(".") : the segments of s
Split(s) == SplitAcc(s, <<>>, <<>>)

\* parts[i] with a JavaScript (0-based) index; undefined out of range
At(parts, i) == IF (i + 1) \in DOMAIN parts THEN parts[i + 1] ELSE Undefined

RECURSIVE TrimLeft(_)
TrimLeft(s) == IF s # <<>> /\ Head(s) = " " THEN TrimLeft(Tail(s)) ELSE s

RECURSIVE TrimRight(_)
TrimRight(s) ==
    IF s # <<>> /\ s[Len(s)] = " " THEN TrimRight(SubSeq(s, 1, Len(s) - 1)) ELSE s

\* s.trim()
Trim(s) == TrimRight(TrimLeft(s))

\* a function with key k set to v (the key added when it is new)
Put(f, k, v) == (k :> v) @@ f

\* ------------------------------------------------------------------ state
VARIABLES
    variant,          \* "ws" | "rest": which adapter runs
    config,           \* this.config: [host, apikey]
    pc,               \* "init" before the ready event, "ready" after onReady
    ws,               \* this.ws: 0 (null) or a socket
    sock,             \* readyState of every socket object
    reconnectTimeout, \* this.reconnectTimeout: 0 (null) or a timer handle
    timers,           \* the reconnect timers that are pending
    connected,        \* this.connected
    unloaded,         \* onUnload has run
    states,           \* the host's state store: id -> [val, ack]
    objects,          \* the host's object tree: id -> [type, name, native]
    subscribed,       \* ids passed to subscribeStates
    notify,           \* stateChange events not yet delivered to onStateChange
    resets,           \* pending button-reset timers (500 ms), in firing order
    tasks,            \* suspended handleMessage calls (the microtask queue)
    latest,           \* per entity, the is_active value of the last message arrived
    wire,             \* the first requests sent on the current connection
    nWrites,          \* user writes made so far
    ev                \* the handler that ran last, with what it put out

vars == <<variant, config, pc, ws, sock, reconnectTimeout, timers, connected,
          unloaded, states, objects, subscribed, notify, resets, tasks, latest,
          wire, nWrites, ev>>

\* ------------------------------------------------------------------ host
\* the adapter instance's namespace: every own id is "<name>.<instance>.<rel>"
Namespace ==
    IF variant = "ws" THEN <<"unfolded", Dot, "0">>
    ELSE <<"unfoldedcircle-remote3", Dot, "0">>

IsPrefix(p, s) == Len(p) <= Len(s) /\ \A i \in 1..Len(p) : s[i] = p[i]

\* the host's id normalisation in setState/extendObject/subscribeStates:
\* a relative id gets the namespace, a full id is kept
FixId(id) == IF IsPrefix(Namespace \o <<Dot>>, id) THEN id ELSE Namespace \o <<Dot>> \o id

\* ------------------------------------------------------------------ transport
\* ws.close(): starts the closing handshake of a socket that is connecting or
\* open; the close event follows later. No effect on a closing/closed socket.
CloseCall(sk, s) ==
    IF sk[s] \in {"CONNECTING", "OPEN"} THEN [sk EXCEPT ![s] = "CLOSING"] ELSE sk

\* socket objects that are finished (their close event was delivered) or unused
FreeSocks(sk) == {s \in SockIds : sk[s] \in {"NONE", "CLOSED"}}

\* new WebSocket(url, {headers}): a socket object in state CONNECTING
NewSock(sk) == CHOOSE s \in FreeSocks(sk) : \A r \in FreeSocks(sk) : s <= r

\* clearTimeout(handle): a no-op for null or for a handle that has fired
ClearTimeout(tms, h) == tms \ {h}

\* the handle setTimeout returns: not one that is pending
NewTimer(tms) == CHOOSE t \in TimerIds \ tms : \A r \in TimerIds \ tms : t <= r

\* the event record of a handler that puts nothing out
Event(h, x) == [h |-> h, x |-> x, out |-> <<>>, log |-> {}, fault |-> "none"]

\* one ws.send(JSON.stringify(m)) per message of msgs, on a socket whose
\* readyState is rs: send throws while CONNECTING (nothing after it runs),
\* and hands the message to a socket that is OPEN, CLOSING or CLOSED (a
\* send that does not throw on a CLOSING or CLOSED socket drops the message)
SendCalls(rs, msgs) ==
    IF rs = "CONNECTING" THEN <<>> ELSE [i \in DOMAIN msgs |-> [msgs[i] EXCEPT !.rs = rs]]

\* whether ws.send throws on a socket whose readyState is rs: always while
\* CONNECTING, never while OPEN; on a CLOSING or CLOSED socket the library
\* throws (ws before 7) or drops the message (ws 7 and later), and the
\* version this adapter is built with is not fixed by its sources
SendThrows(rs) ==
    IF rs = "CONNECTING" THEN {TRUE}
    ELSE IF rs = "OPEN" THEN {FALSE}
    ELSE {TRUE, FALSE}

Request(name) == [msg |-> name, entity_id |-> <<>>, cmd_id |-> <<>>, rs |-> "NONE"]

\* subscribeActivities(): the subscribe_events request
SubscribeMsg == Request("subscribe_events")

\* requestAllActivities(): the get_entities request
GetEntitiesMsg == Request("get_entities")

\* the open handler with its two calls in the other order
OpenRequestsSwapped == <<GetEntitiesMsg, SubscribeMsg>>

\* the requests the open handler sends, in its order
OpenRequests == <<SubscribeMsg, GetEntitiesMsg>>

RECURSIVE MsgNames(_)
MsgNames(calls) == IF calls = <<>> THEN <<>> ELSE <<Head(calls).msg>> \o MsgNames(Tail(calls))

\* the connection's trace with the names of calls added, cut at MaxWire
Traced(w, calls) ==
    LET all == w \o MsgNames(calls) IN
    IF Len(all) <= MaxWire THEN all ELSE SubSeq(all, 1, MaxWire)

\* connectWebSocket(url, token): close the current socket if there is one, then
\* create a new one and keep it in this.ws
ConnectWebSocket(sk, w) ==
    LET closed == IF w # 0 THEN CloseCall(sk, w) ELSE sk
        s == NewSock(closed)
    IN [ws |-> s, sock |-> [closed EXCEPT ![s] = "CONNECTING"]]

CanConnect(sk, w) == FreeSocks(IF w # 0 THEN CloseCall(sk, w) ELSE sk) # {}

InfoConnection == FixId(<<"info", Dot, "connection">>)

Ack(v) == [val |-> v, ack |-> TRUE]

\* a check that takes a text of spaces for a value
BlankNoTrim(s) == s = Undefined \/ s = <<>>

\* !s || s.trim() === "" for a configuration string
Blank(s) == s = Undefined \/ s = <<>> \/ Trim(s) = <<>>

\* ------------------------------------------------------------------ Init
Hosts == {Undefined, <<" ">>, <<"hub">>}
ApiKeys == {Undefined, <<>>, <<"tok">>}

Init ==
    /\ variant \in {"ws", "rest"}
    /\ config \in [host : Hosts, apikey : ApiKeys]
    /\ pc = "init"
    /\ ws = 0
    /\ sock = [s \in SockIds |-> "NONE"]
    /\ reconnectTimeout = 0
    /\ timers = {}
    /\ connected = FALSE
    /\ unloaded = FALSE
    /\ states = <<>>
    /\ objects = <<>>
    /\ subscribed = {}
    /\ notify = <<>>
    /\ resets = <<>>
    /\ tasks = <<>>
    /\ latest = <<>>
    /\ wire = <<>>
    /\ nWrites = 0
    /\ ev = Event("constructor", "")

\* the JavaScript job that runs has ended and the microtask queue is drained:
\* only then does the event loop deliver the next event. (Each await of
\* handleMessage suspends it for one microtask: createOrUpdateActivity has no
\* await of its own, and setStateAsync is called before it is awaited.)
Quiet == tasks = <<>>

\* ------------------------------------------------------------------ WebSocket adapter: connection
\* onReady(): checks the configuration, then connects
OnReady ==
    /\ variant = "ws" /\ pc = "init" /\ Quiet
    /\ pc' = "ready"
    /\ IF Blank(config.host) \/ Blank(config.apikey)
       THEN /\ ev' = [Event("ready", "aborted") EXCEPT !.log = {"error"}]
            /\ UNCHANGED <<ws, sock, wire>>
       ELSE /\ CanConnect(sock, ws)
            /\ ws' = ConnectWebSocket(sock, ws).ws
            /\ sock' = ConnectWebSocket(sock, ws).sock
            /\ wire' = <<>>
            /\ ev' = Event("ready", "connect")
    /\ UNCHANGED <<variant, config, reconnectTimeout, timers, connected, unloaded,
                   states, objects, subscribed, notify, resets, tasks, latest, nWrites>>

\* the socket's "open" event: the library sets readyState OPEN and emits it
SockOpen(s) ==
    /\ variant = "ws" /\ Quiet
    /\ sock[s] = "CONNECTING"
    /\ LET opened == [sock EXCEPT ![s] = "OPEN"]
           calls == SendCalls(opened[ws], OpenRequests)
       IN /\ sock' = opened
          /\ connected' = TRUE
          /\ states' = Put(states, InfoConnection, Ack(TRUE))
          /\ wire' = Traced(wire, calls)
          /\ ev' = [Event("open", "") EXCEPT
                       !.out = calls,
                       !.fault = IF opened[ws] = "CONNECTING" THEN "uncaught" ELSE "none"]
    /\ UNCHANGED <<variant, config, pc, ws, reconnectTimeout, timers, unloaded,
                   objects, subscribed, notify, resets, tasks, latest, nWrites>>

\* an error handler that schedules a reconnect of its own and does not keep
\* the timer's handle
SockErrorReconnects(s) ==
    /\ variant = "ws" /\ tasks = <<>>
    /\ sock[s] \in {"CONNECTING", "OPEN"}
    /\ TimerIds \ timers # {}
    /\ sock' = [sock EXCEPT ![s] = "CLOSING"]
    /\ timers' = timers \cup {NewTimer(timers)}
    /\ ev' = [Event("error", "") EXCEPT !.log = {"error"}]
    /\ UNCHANGED <<variant, config, pc, ws, reconnectTimeout, connected,
                   unloaded, states, objects, subscribed, notify, resets, tasks,
                   latest, wire, nWrites>>

\* an error handler that sets the connection state to disconnected
SockErrorDisconnects(s) ==
    /\ variant = "ws" /\ tasks = <<>>
    /\ sock[s] \in {"CONNECTING", "OPEN"}
    /\ sock' = [sock EXCEPT ![s] = "CLOSING"]
    /\ connected' = FALSE
    /\ states' = Put(states, InfoConnection, Ack(FALSE))
    /\ ev' = [Event("error", "") EXCEPT !.log = {"error"}]
    /\ UNCHANGED <<variant, config, pc, ws, reconnectTimeout, timers,
                   unloaded, objects, subscribed, notify, resets, tasks,
                   latest, wire, nWrites>>

\* the socket's "error" event (connect failure, protocol error, aborted
\* handshake): the library moves the socket to CLOSING and emits it; the
\* handler only logs
SockError(s) ==
    /\ variant = "ws" /\ Quiet
    /\ sock[s] \in {"CONNECTING", "OPEN"}
    /\ sock' = [sock EXCEPT ![s] = "CLOSING"]
    /\ ev' = [Event("error", "") EXCEPT !.log = {"error"}]
    /\ UNCHANGED <<variant, config, pc, ws, reconnectTimeout, timers, connected,
                   unloaded, states, objects, subscribed, notify, resets, tasks,
                   latest, wire, nWrites>>

\* the peer closes or the network fails: the socket is CLOSING until its
\* close event is delivered; no handler runs
PeerClose(s) ==
    /\ variant = "ws" /\ Quiet
    /\ sock[s] = "OPEN"
    /\ sock' = [sock EXCEPT ![s] = "CLOSING"]
    /\ UNCHANGED <<variant, config, pc, ws, reconnectTimeout, timers, connected,
                   unloaded, states, objects, subscribed, notify, resets, tasks,
                   latest, wire, ev, nWrites>>

\* the reconnect timer the close handler leaves pending: cancel-then-schedule
Reschedule(tms, h) ==
    LET cleared == IF h # 0 THEN ClearTimeout(tms, h) ELSE tms
        t == NewTimer(cleared)
    IN [timers |-> cleared \cup {t}, handle |-> t]

\* a close handler that reconnects only after a connection that had opened
SockCloseIfConnected(s) ==
    /\ variant = "ws" /\ tasks = <<>>
    /\ sock[s] = "CLOSING"
    /\ TimerIds \ ClearTimeout(timers, reconnectTimeout) # {}
    /\ sock' = [sock EXCEPT ![s] = "CLOSED"]
    /\ connected' = FALSE
    /\ states' = Put(states, InfoConnection, Ack(FALSE))
    /\ timers' = IF connected THEN Reschedule(timers, reconnectTimeout).timers ELSE timers
    /\ reconnectTimeout' = IF connected THEN Reschedule(timers, reconnectTimeout).handle
                           ELSE reconnectTimeout
    /\ ev' = [Event("close", "") EXCEPT !.log = {"warn"}]
    /\ UNCHANGED <<variant, config, pc, ws, unloaded, objects, subscribed, notify,
                   resets, tasks, latest, wire, nWrites>>

\* the socket's "close" event: the library sets readyState CLOSED and emits it
SockClose(s) ==
    /\ variant = "ws" /\ Quiet
    /\ sock[s] = "CLOSING"
    /\ TimerIds \ ClearTimeout(timers, reconnectTimeout) # {}
    /\ sock' = [sock EXCEPT ![s] = "CLOSED"]
    /\ connected' = FALSE
    /\ states' = Put(states, InfoConnection, Ack(FALSE))
    /\ timers' = Reschedule(timers, reconnectTimeout).timers
    /\ reconnectTimeout' = Reschedule(timers, reconnectTimeout).handle
    /\ ev' = [Event("close", "") EXCEPT !.log = {"warn"}]
    /\ UNCHANGED <<variant, config, pc, ws, unloaded, objects, subscribed, notify,
                   resets, tasks, latest, wire, nWrites>>

\* the reconnect timer fires (5 s after the close): connectWebSocket again
TimerFire(t) ==
    /\ variant = "ws" /\ Quiet
    /\ t \in timers
    /\ CanConnect(sock, ws)
    /\ timers' = timers \ {t}
    /\ ws' = ConnectWebSocket(sock, ws).ws
    /\ sock' = ConnectWebSocket(sock, ws).sock
    /\ wire' = <<>>
    /\ ev' = Event("reconnect", "")
    /\ UNCHANGED <<variant, config, pc, reconnectTimeout, connected, unloaded,
                   states, objects, subscribed, notify, resets, tasks, latest, nWrites>>

\* onUnload(callback): close the socket, cancel the reconnect timer
OnUnload ==
    /\ variant = "ws" /\ Quiet
    /\ pc = "ready" /\ ~unloaded
    /\ unloaded' = TRUE
    /\ sock' = IF ws # 0 THEN CloseCall(sock, ws) ELSE sock
    /\ timers' = ClearTimeout(timers, reconnectTimeout)
    /\ ev' = Event("unload", "")
    /\ UNCHANGED <<variant, config, pc, ws, reconnectTimeout, connected, states,
                   objects, subscribed, notify, resets, tasks, latest, wire, nWrites>>

\* ------------------------------------------------------------------ WebSocket adapter: inbound
EntityIds == {<<"uc", Dot, "main", Dot, "k1">>, <<"uc", Dot, "main", Dot, "k2">>}
\* an entity's name: undefined (no name field), or a mapping that has de_DE,
\* only en_US, or neither
NameKinds == {"undefined", "de_DE"}
EntityStates == {"ON", "OFF"}
\* msg_data.new_state of an event: undefined, an object without attributes
\* ("noattr"), or the value of new_state.attributes.state
NewStates == {"undefined", "noattr", "ON", "OFF", "IDLE"}

K1 == <<"uc", Dot, "main", Dot, "k1">>

\* the entity records of entities responses: named ones, and one without a name
Entities ==
    [entity_id : EntityIds, name : NameKinds \ {"undefined"}, state : EntityStates]
    \cup {[entity_id |-> K1, name |-> "undefined", state |-> "ON"]}

\* a record the reconciler accepts
Named(act) == act.name # "undefined"

\* position of an entity in the hub's list
Rank(id) == IF id = K1 THEN 1 ELSE 2

\* the lists of an entities response: empty, the hub's two activities in its
\* order, or a single record without a name
EntityLists ==
    {l \in UNION {[1..n -> Entities] : n \in 0..MaxEntities} :
        /\ \A i, j \in DOMAIN l : i < j => Rank(l[i].entity_id) < Rank(l[j].entity_id)
        /\ Len(l) > 1 => \A i \in DOMAIN l : Named(l[i])
        /\ Len(l) = 1 => ~Named(l[1])}

\* a parsed message with no field set
Blankmsg ==
    [t |-> "object", kind |-> "", code |-> 0, msg |-> "", cat |-> "",
     hasData |-> FALSE, entitiesIsArray |-> FALSE, entities |-> <<>>,
     entity_type |-> "", event_type |-> "", entity_id |-> Undefined,
     new_state |-> "undefined"]

EntitiesResp(code, list) ==
    [Blankmsg EXCEPT !.kind = "resp", !.code = code, !.msg = "entities",
                     !.hasData = TRUE, !.entitiesIsArray = TRUE, !.entities = list]

ChangeEvent(etype, id, ns) ==
    [Blankmsg EXCEPT !.kind = "event", !.msg = "entity_change", !.cat = "ENTITY",
                     !.hasData = TRUE, !.entity_type = "activity",
                     !.event_type = etype, !.entity_id = id, !.new_state = ns]

\* the frames the hub may send: text that is no JSON, JSON null, an object
\* without msg_data, entities responses, entity_change events
Frames ==
    {[syntax |-> "invalid", json |-> Blankmsg],
     [syntax |-> "valid", json |-> [Blankmsg EXCEPT !.t = "null"]],
     [syntax |-> "valid", json |-> [Blankmsg EXCEPT !.kind = "resp", !.code = 200]],
     [syntax |-> "valid", json |-> EntitiesResp(500, <<>>)]}
    \cup {[syntax |-> "valid", json |-> EntitiesResp(200, l)] : l \in EntityLists}
    \cup {[syntax |-> "valid", json |-> ChangeEvent("CHANGE", id, ns)] :
              id \in EntityIds, ns \in {"ON", "OFF"}}
    \cup {[syntax |-> "valid", json |-> ChangeEvent("CHANGE", K1, ns)] : ns \in NewStates}
    \cup {[syntax |-> "valid", json |-> ChangeEvent("NEW", K1, "ON")]}

\* JSON.parse(data.toString()): a SyntaxError for text that is no JSON
JSONParse(frame) ==
    IF frame.syntax = "valid" THEN [ok |-> TRUE, val |-> frame.json]
    ELSE [ok |-> FALSE, val |-> Blankmsg]

\* id = act.entity_id.split(".")[2]
LocalKey(entity_id) == At(Split(entity_id), 2)

ChannelId(id) == <<"activities", Dot>> \o ToText(id)
IsActiveId(id) == ChannelId(id) \o <<Dot, "is_active">>
StartId(id) == ChannelId(id) \o <<Dot, "start">>

\* act.name.de_DE || act.name.en_US || id
DisplayName(act, id) ==
    IF act.name \in {"de_DE", "en_US"} THEN <<act.name>> ELSE ToText(id)

\* an object: its type, common.name, common.write and native part
Obj(type, name) == [type |-> type, name |-> name, native |-> <<>>, write |-> FALSE]

\* a state the user may write (common.write)
Writable(name) == [Obj("state", name) EXCEPT !.write = TRUE]

\* line 171-201: the host calls of createOrUpdateActivity for local key id
Reconcile(st, act, id) ==
    [threw |-> "",
     objects |->
         Put(Put(Put(st.objects,
                     FixId(ChannelId(id)), Obj("channel", DisplayName(act, id))),
                 FixId(IsActiveId(id)), Obj("state", <<"Activity aktiv?">>)),
             FixId(StartId(id)), Writable(<<"Starte diese Aktivitaet">>)),
     states |-> Put(st.states, FixId(IsActiveId(id)), Ack(act.state # "OFF")),
     subscribed |-> st.subscribed \cup {FixId(StartId(id))}]

\* createOrUpdateActivity(act): the host calls it makes up to its end or up to
\* the TypeError it throws (entity_id or name undefined)
CreateOrUpdateActivity(st, act) ==
    IF act.entity_id = Undefined THEN [st EXCEPT !.threw = "act.entity_id.split"]
    ELSE IF act.name = "undefined" THEN [st EXCEPT !.threw = "act.name.de_DE"]
    ELSE Reconcile(st, act, LocalKey(act.entity_id))

\* the store a handler works on
Store == [threw |-> "", objects |-> objects, states |-> states, subscribed |-> subscribed]

\* line 140-142: a successful entities response
IsEntitiesResp(m) ==
    /\ m.hasData /\ m.kind = "resp" /\ m.code = 200
    /\ m.msg = "entities" /\ m.entitiesIsArray

\* line 149-152: a state change event of an activity
IsChangeEvent(m) ==
    /\ m.hasData /\ m.kind = "event"
    /\ m.msg = "entity_change" /\ m.cat = "ENTITY" /\ m.entity_type = "activity"
    /\ m.event_type = "CHANGE" /\ m.new_state # "undefined"

\* the event branch without the test of line 157: every state that is not ON
\* counts as OFF
ApplyChangeAlways(st, m) ==
    IF m.entity_id = Undefined THEN [st EXCEPT !.threw = "act.entity_id.split"]
    ELSE IF m.new_state = "noattr" THEN [st EXCEPT !.threw = "act.new_state.attributes.state"]
    ELSE [st EXCEPT !.states =
             Put(st.states, FixId(IsActiveId(LocalKey(m.entity_id))), Ack(m.new_state = "ON"))]

\* line 153-160: the body of the event branch
ApplyChange(st, m) ==
    IF m.entity_id = Undefined THEN [st EXCEPT !.threw = "act.entity_id.split"]
    ELSE IF m.new_state = "noattr" THEN [st EXCEPT !.threw = "act.new_state.attributes.state"]
    ELSE IF m.new_state \in {"ON", "OFF"}
    THEN [st EXCEPT !.states =
             Put(st.states, FixId(IsActiveId(LocalKey(m.entity_id))), Ack(m.new_state = "ON"))]
    ELSE st

\* handleMessage(msg) up to its first await (or its end): the store after it,
\* whether it threw, and the entity records its loop has still to do
HandleMessage(st, m) ==
    IF m.t = "null" THEN [st |-> [st EXCEPT !.threw = "msg.msg"], rest |-> <<>>]
    ELSE IF IsEntitiesResp(m) /\ m.entities # <<>>
    THEN LET r == CreateOrUpdateActivity(st, Head(m.entities))
         IN [st |-> r, rest |-> IF r.threw # "" THEN <<>> ELSE Tail(m.entities)]
    ELSE IF IsChangeEvent(m) THEN [st |-> ApplyChange(st, m), rest |-> <<>>]
    ELSE [st |-> st, rest |-> <<>>]

RECURSIVE CarriedList(_, _)
CarriedList(lt, list) ==
    IF list = <<>> THEN lt
    ELSE CarriedList(Put(lt, Head(list).entity_id, Head(list).state # "OFF"), Tail(list))

\* arrival order: per entity, the is_active value the message just arrived
\* carries (a snapshot record, or an ON/OFF change event)
Carried(lt, m) ==
    IF m.t = "null" THEN lt
    ELSE IF IsEntitiesResp(m) THEN CarriedList(lt, m.entities)
    ELSE IF IsChangeEvent(m) /\ m.new_state \in {"ON", "OFF"} /\ m.entity_id # Undefined
    THEN Put(lt, m.entity_id, m.new_state = "ON")
    ELSE lt

\* a message handler without the try/catch around JSON.parse
OnMessageNoCatch(s, frame) ==
    /\ variant = "ws"
    /\ sock[s] = "OPEN"
    /\ Len(tasks) <= MaxTasks
    /\ tasks = <<>> \/ ev.h = "message"
    /\ \E p \in {JSONParse(frame)} : \E r \in {HandleMessage(Store, p.val)} :
          IF ~p.ok
          THEN /\ ev' = [Event("message", "SyntaxError") EXCEPT !.fault = "uncaught"]
               /\ UNCHANGED <<states, objects, subscribed, tasks, latest>>
          ELSE /\ states' = r.st.states
               /\ objects' = r.st.objects
               /\ subscribed' = r.st.subscribed
               /\ tasks' = IF r.rest = <<>> THEN tasks ELSE Append(tasks, r.rest)
               /\ latest' = IF r.st.threw # "" THEN latest ELSE Carried(latest, p.val)
               /\ ev' = [Event("message", r.st.threw) EXCEPT
                            !.fault = IF r.st.threw # "" THEN "rejection" ELSE "none"]
    /\ UNCHANGED <<variant, config, pc, ws, sock, reconnectTimeout, timers,
                   connected, unloaded, notify, resets, wire, nWrites>>

\* the socket's "message" event. A frame arrives when the event loop is idle,
\* or in the receive chunk of the frame before it: the library emits the
\* frames of one chunk in one job, so the handlers suspended at an await have
\* not resumed. (Frames that arrive during a closing handshake are left out.)
OnMessage(s, frame) ==
    /\ variant = "ws"
    /\ sock[s] = "OPEN"
    /\ Len(tasks) <= MaxTasks
    /\ tasks = <<>> \/ ev.h = "message"
    /\ \E p \in {JSONParse(frame)} : \E r \in {HandleMessage(Store, p.val)} :
          IF ~p.ok
          THEN /\ ev' = [Event("message", "SyntaxError") EXCEPT !.log = {"warn"}]
               /\ UNCHANGED <<states, objects, subscribed, tasks, latest>>
          ELSE /\ states' = r.st.states
               /\ objects' = r.st.objects
               /\ subscribed' = r.st.subscribed
               /\ tasks' = IF r.rest = <<>> THEN tasks ELSE Append(tasks, r.rest)
               /\ latest' = IF r.st.threw # "" THEN latest ELSE Carried(latest, p.val)
               /\ ev' = [Event("message", r.st.threw) EXCEPT
                            !.fault = IF r.st.threw # "" THEN "rejection" ELSE "none"]
    /\ UNCHANGED <<variant, config, pc, ws, sock, reconnectTimeout, timers,
                   connected, unloaded, notify, resets, wire, nWrites>>

\* a suspended handleMessage resumes after its await: the next record of its loop
Microtask ==
    /\ variant = "ws"
    /\ tasks # <<>>
    /\ \E rest \in {Head(tasks)} : \E r \in {CreateOrUpdateActivity(Store, Head(rest))} :
          /\ states' = r.states
          /\ objects' = r.objects
          /\ subscribed' = r.subscribed
          /\ tasks' = IF r.threw # "" \/ Tail(rest) = <<>> THEN Tail(tasks)
                      ELSE Append(Tail(tasks), Tail(rest))
          /\ latest' = latest
          /\ ev' = [Event("microtask", r.threw) EXCEPT
                       !.fault = IF r.threw # "" THEN "rejection" ELSE "none"]
    /\ UNCHANGED <<variant, config, pc, ws, sock, reconnectTimeout, timers,
                   connected, unloaded, notify, resets, wire, nWrites>>

\* ------------------------------------------------------------------ WebSocket adapter: commands
\* what a stateChange event carries: null (the state was deleted) or a state
NoState == [t |-> "null", val |-> FALSE, ack |-> FALSE]
StateOf(v, a) == [t |-> "state", val |-> v, ack |-> a]
UserStates == {NoState, StateOf(TRUE, FALSE), StateOf(FALSE, FALSE), StateOf(TRUE, TRUE)}

\* a write (or a delete) of a subscribed state by the user or another adapter:
\* the host stores it and publishes a stateChange event to the adapter (the
\* host ends the instance's subscriptions when it stops the instance)
UserWrite(id, st) ==
    /\ variant = "ws" /\ Quiet /\ ~unloaded
    /\ id \in subscribed
    /\ nWrites < MaxWrites
    /\ nWrites' = nWrites + 1
    /\ states' = IF st.t = "null" THEN [x \in (DOMAIN states) \ {id} |-> states[x]]
                 ELSE Put(states, id, [val |-> st.val, ack |-> st.ack])
    /\ notify' = Append(notify, [id |-> id, state |-> st])
    /\ UNCHANGED <<variant, config, pc, ws, sock, reconnectTimeout, timers,
                   connected, unloaded, objects, subscribed, resets, tasks, latest,
                   wire, ev>>

\* the execute_entity_command request for activity actId
ExecuteMsg(actId) ==
    [msg |-> "execute_entity_command",
     entity_id |-> <<"uc", Dot, "main", Dot>> \o ToText(actId),
     cmd_id |-> <<"activity", Dot, "start">>,
     rs |-> "NONE"]

\* line 213 without the test of this.connected
IsStartAnyState(id, st, conn) ==
    LET parts == Split(id)
        command == At(parts, Len(parts) - 1)
    IN command = <<"start">> /\ st.val = TRUE

\* line 213: the write is a start command that is sent
IsStart(id, st, conn) ==
    LET parts == Split(id)
        command == At(parts, Len(parts) - 1)
    IN command = <<"start">> /\ st.val = TRUE /\ conn

\* onStateChange without the test of state.ack
OnStateChangeNoAck ==
    /\ variant = "ws" /\ tasks = <<>>
    /\ notify # <<>>
    /\ notify' = Tail(notify)
    /\ LET id == Head(notify).id
           st == Head(notify).state
           parts == Split(id)
           actId == At(parts, Len(parts) - 2)
           calls == SendCalls(sock[ws], <<ExecuteMsg(actId)>>)
       IN IF st.t = "null"
          THEN /\ ev' = Event("stateChange", "ignored")
               /\ UNCHANGED <<resets, wire>>
          ELSE IF IsStart(id, st, connected)
          THEN \E thrown \in SendThrows(sock[ws]) :
               /\ resets' = Append(resets, id)
               /\ wire' = Traced(wire, IF thrown THEN <<>> ELSE calls)
               /\ ev' = [Event("stateChange", "start") EXCEPT
                            !.out = IF thrown THEN <<>> ELSE calls,
                            !.log = IF thrown THEN {"error"} ELSE {}]
          ELSE /\ ev' = Event("stateChange", "no command")
               /\ UNCHANGED <<resets, wire>>
    /\ UNCHANGED <<variant, config, pc, ws, sock, reconnectTimeout, timers,
                   connected, unloaded, states, objects, subscribed, tasks, latest,
                   nWrites>>

\* onStateChange(id, state): the host delivers the oldest stateChange event
OnStateChange ==
    /\ variant = "ws" /\ Quiet
    /\ notify # <<>>
    /\ notify' = Tail(notify)
    /\ LET id == Head(notify).id
           st == Head(notify).state
           parts == Split(id)
           actId == At(parts, Len(parts) - 2)
           calls == SendCalls(sock[ws], <<ExecuteMsg(actId)>>)
       IN IF st.t = "null" \/ st.ack
          THEN /\ ev' = Event("stateChange", "ignored")
               /\ UNCHANGED <<resets, wire>>
          ELSE IF IsStart(id, st, connected)
          THEN \E thrown \in SendThrows(sock[ws]) :
               /\ resets' = Append(resets, id)
               /\ wire' = Traced(wire, IF thrown THEN <<>> ELSE calls)
               /\ ev' = [Event("stateChange", "start") EXCEPT
                            !.out = IF thrown THEN <<>> ELSE calls,
                            !.log = IF thrown THEN {"error"} ELSE {}]
          ELSE /\ ev' = Event("stateChange", "no command")
               /\ UNCHANGED <<resets, wire>>
    /\ UNCHANGED <<variant, config, pc, ws, sock, reconnectTimeout, timers,
                   connected, unloaded, states, objects, subscribed, tasks, latest,
                   nWrites>>

\* the button-reset timer fires (500 ms after the command):
\* setState(id, false, true); the host stores it and, the id being subscribed,
\* publishes the change back to the adapter
ResetFire ==
    /\ variant = "ws" /\ Quiet
    /\ resets # <<>>
    /\ resets' = Tail(resets)
    /\ LET id == FixId(Head(resets))
       IN /\ states' = Put(states, id, Ack(FALSE))
          /\ notify' = IF id \in subscribed
                       THEN Append(notify, [id |-> id, state |-> StateOf(FALSE, TRUE)])
                       ELSE notify
    /\ ev' = Event("reset", "")
    /\ UNCHANGED <<variant, config, pc, ws, sock, reconnectTimeout, timers,
                   connected, unloaded, objects, subscribed, tasks, latest, wire,
                   nWrites>>

\* ------------------------------------------------------------------ REST adapter
\* tokens that are no letter, digit, "_" or "-"
Punct == {Dot, " ", "/"}

RECURSIVE Sanitize(_)
\* s.replace(/[^a-zA-Z0-9_\-]/g, '_')
Sanitize(s) ==
    IF s = <<>> THEN <<>>
    ELSE <<IF Head(s) \in Punct THEN "_" ELSE Head(s)>> \o Sanitize(Tail(s))

RECURSIVE Unscore(_)
\* s.replace(/_/g, ' ')
Unscore(s) ==
    IF s = <<>> THEN <<>>
    ELSE <<IF Head(s) = "_" THEN " " ELSE Head(s)>> \o Unscore(Tail(s))

\* the entities GET /api/v1/entities returns: a type, an id, action names
RestEntities ==
    {[type |-> <<"activity">>, id |-> K1, actions |-> <<<<"start">>>>],
     [type |-> <<"light">>, id |-> <<"lamp">>, actions |-> <<<<"turn", "_", "on">>, <<"x", Dot, "y">>>>]}

\* what the GET ends with: a failure, a body that is no array, or a list
Fetches ==
    {[ok |-> FALSE, isArray |-> FALSE, list |-> <<>>],
     [ok |-> TRUE, isArray |-> FALSE, list |-> <<>>]}
    \cup {[ok |-> TRUE, isArray |-> TRUE, list |-> l] :
             l \in UNION {[1..n -> RestEntities] : n \in 0..MaxEntities}}

\* setObjectNotExistsAsync(id, obj): creates the object unless it exists
SetObjectNotExists(objs, id, o) == IF FixId(id) \in DOMAIN objs THEN objs ELSE Put(objs, FixId(id), o)

RECURSIVE CreateActions(_, _, _)
\* line 182-195: one writable state per action of the entity
CreateActions(objs, base, actions) ==
    IF actions = <<>> THEN objs
    ELSE CreateActions(
             SetObjectNotExists(objs, base \o <<Dot, "actions", Dot>> \o Sanitize(Head(actions)),
                                Writable(Head(actions))),
             base, Tail(actions))

\* line 131-205: the objects and states of one entity
CreateEntity(st, ent) ==
    LET base == ent.type \o <<Dot>> \o Sanitize(ent.id)
        o1 == SetObjectNotExists(st.objects, ent.type, Obj("channel", ent.type))
        o2 == SetObjectNotExists(o1, base, [Obj("channel", ent.id) EXCEPT !.native = ent.id])
        o3 == SetObjectNotExists(o2, base \o <<Dot, "meta">>, Obj("state", <<"metadata">>))
        o4 == IF ent.actions = <<>> THEN o3
              ELSE CreateActions(
                       SetObjectNotExists(o3, base \o <<Dot, "actions">>, Obj("channel", <<"actions">>)),
                       base, ent.actions)
        o5 == SetObjectNotExists(o4, base \o <<Dot, "lastUpdate">>, Obj("state", <<"last update">>))
    IN [st EXCEPT
           !.objects = o5,
           !.states = Put(Put(st.states, FixId(base \o <<Dot, "meta">>), Ack(<<"JSON">>)),
                          FixId(base \o <<Dot, "lastUpdate">>), Ack(<<"now">>))]

RECURSIVE CreateObjectsForEntities(_, _)
\* _createObjectsForEntities(entities)
CreateObjectsForEntities(st, list) ==
    IF list = <<>> THEN st
    ELSE CreateObjectsForEntities(CreateEntity(st, Head(list)), Tail(list))

MetaApi == <<"meta", Dot, "api">>

\* onReady() of the REST adapter: the basic states, then the entities, once
RestOnReady(fetch) ==
    /\ variant = "rest" /\ pc = "init"
    /\ pc' = "ready"
    /\ \E st0 \in {[threw |-> "",
                    objects |-> SetObjectNotExists(
                                    SetObjectNotExists(objects, <<"info", Dot, "connection">>,
                                                       Obj("state", <<"connected">>)),
                                    MetaApi, Obj("state", <<"api_meta">>)),
                    states |-> Put(states, InfoConnection, Ack(FALSE)),
                    subscribed |-> subscribed]} :
          IF fetch.ok /\ fetch.isArray
          THEN \E st \in {CreateObjectsForEntities(
                              [st0 EXCEPT !.states = Put(st0.states, FixId(MetaApi), Ack(<<"JSON">>))],
                              fetch.list)} :
                  /\ objects' = st.objects
                  /\ states' = Put(st.states, InfoConnection, Ack(TRUE))
                  /\ ev' = Event("ready", "loaded")
          ELSE /\ objects' = st0.objects
               /\ states' = IF fetch.ok THEN Put(st0.states, FixId(MetaApi), Ack(<<"JSON">>))
                            ELSE st0.states
               /\ ev' = [Event("ready", "failed") EXCEPT !.log = {"error"}]
    /\ UNCHANGED <<variant, config, ws, sock, reconnectTimeout, timers, connected,
                   unloaded, subscribed, notify, resets, tasks, latest, wire, nWrites>>

\* what a user writes into an action state: a text
RestUserStates == {NoState, StateOf(<<"go">>, FALSE), StateOf(<<"go">>, TRUE)}

\* a write (or a delete) of a writable state of the instance. The handler is
\* registered (line 63); the model has the host deliver these changes to it
RestUserWrite(id, st) ==
    /\ variant = "rest" /\ ~unloaded
    /\ id \in DOMAIN objects /\ objects[id].write
    /\ nWrites < MaxWrites
    /\ nWrites' = nWrites + 1
    /\ states' = IF st.t = "null" THEN [x \in (DOMAIN states) \ {id} |-> states[x]]
                 ELSE Put(states, id, [val |-> st.val, ack |-> st.ack])
    /\ notify' = Append(notify, [id |-> id, state |-> st])
    /\ UNCHANGED <<variant, config, pc, ws, sock, reconnectTimeout, timers,
                   connected, unloaded, objects, subscribed, resets, tasks, latest,
                   wire, ev>>

\* id.match(/^([^.]+)\.([^.]+)\.actions\.([^.]+)$/)
ActionMatch(id) ==
    LET parts == Split(id)
    IN /\ Len(parts) = 4
       /\ \A i \in 1..4 : parts[i] # <<>>
       /\ parts[3] = <<"actions">>

\* line 222-229: the original id kept in the channel's native part, else the safe id
OrigId(objs, type, safeOrigId) ==
    LET ch == type \o <<Dot>> \o safeOrigId
    IN IF ch \in DOMAIN objs /\ objs[ch].native # <<>> THEN objs[ch].native ELSE safeOrigId

\* the POST of an action
PostMsg(origId, actionName, result) ==
    [msg |-> "POST", entity_id |-> origId, cmd_id |-> actionName, rs |-> result]

\* onStateChange(id, state) of the REST adapter, with the result of its POST
RestOnStateChange(post) ==
    /\ variant = "rest"
    /\ notify # <<>>
    /\ notify' = Tail(notify)
    /\ \E id \in {Head(notify).id} : \E st \in {Head(notify).state} :
          IF st.t = "null" \/ st.ack
          THEN /\ ev' = Event("stateChange", "ignored")
               /\ UNCHANGED <<states, objects>>
          ELSE IF ~ActionMatch(id)
          THEN /\ ev' = Event("stateChange", "no match")
               /\ UNCHANGED <<states, objects>>
          ELSE \E parts \in {Split(id)} :
               \E call \in {PostMsg(OrigId(objects, parts[1], parts[2]), Unscore(parts[4]), post)} :
                  IF post = "ok"
                  THEN /\ states' = Put(Put(states, FixId(id), [val |-> st.val, ack |-> TRUE]),
                                        FixId(parts[1] \o <<Dot>> \o parts[2] \o <<Dot, "lastUpdate">>),
                                        Ack(<<"now">>))
                       /\ objects' = objects
                       /\ ev' = [Event("stateChange", "posted") EXCEPT !.out = <<call>>]
                  ELSE /\ objects' = SetObjectNotExists(objects, id \o <<"_error">>,
                                                        Obj("state", <<"last action error">>))
                       /\ states' = Put(states, FixId(id \o <<"_error">>), Ack(<<"err.message">>))
                       /\ ev' = [Event("stateChange", "failed") EXCEPT
                                    !.out = <<call>>, !.log = {"error"}]
    /\ UNCHANGED <<variant, config, pc, ws, sock, reconnectTimeout, timers,
                   connected, unloaded, subscribed, resets, tasks, latest, wire, nWrites>>

\* onUnload(callback) of the REST adapter
RestOnUnload ==
    /\ variant = "rest" /\ pc = "ready" /\ ~unloaded
    /\ unloaded' = TRUE
    /\ ev' = Event("unload", "")
    /\ UNCHANGED <<variant, config, pc, ws, sock, reconnectTimeout, timers,
                   connected, states, objects, subscribed, notify, resets, tasks,
                   latest, wire, nWrites>>

\* ------------------------------------------------------------------ specification
Next ==
    \/ OnReady
    \/ \E s \in SockIds : SockOpen(s)
    \/ \E s \in SockIds : SockError(s)
    \/ \E s \in SockIds : PeerClose(s)
    \/ \E s \in SockIds : SockClose(s)
    \/ \E t \in TimerIds : TimerFire(t)
    \/ OnUnload
    \/ \E s \in SockIds, f \in Frames : OnMessage(s, f)
    \/ Microtask
    \/ \E id \in subscribed, st \in UserStates : UserWrite(id, st)
    \/ OnStateChange
    \/ ResetFire
    \/ \E fetch \in Fetches : RestOnReady(fetch)
    \/ \E id \in DOMAIN objects, st \in RestUserStates : RestUserWrite(id, st)
    \/ \E post \in {"ok", "fail"} : RestOnStateChange(post)
    \/ RestOnUnload

Spec == Init /\ [][Next]_vars

\* the reconnect timer fires once its delay has passed
LiveSpec == Init /\ [][Next]_vars /\ WF_vars(\E t \in TimerIds : TimerFire(t))

\* ------------------------------------------------------------------ properties
\* the sockets that are connecting or open
LiveSocks == {s \in SockIds : sock[s] \in {"CONNECTING", "OPEN"}}

\* a request as the library takes it on an open socket
Sent(m) == [m EXCEPT !.rs = "OPEN"]

\* C1: once onUnload has run, no reconnect timer is pending or gets scheduled
\* and no new socket is created, whatever events follow (the close event of
\* the socket that onUnload closed among them)
C1_ShutdownSuppressesReconnect ==
    [][unloaded' =>
          /\ timers' = {}
          /\ (unloaded => \A s \in SockIds : sock'[s] = "CONNECTING" => sock[s] = "CONNECTING")]_vars

\* the close event of the socket that onUnload closed has left a timer pending
C1_TimerAfterUnload == unloaded /\ ev.h = "close" /\ timers # {}

\* C2: in every reachable state of the WebSocket adapter at most one socket is
\* connecting or open and at most one reconnect timer is pending
C2_OneSocketOneTimer ==
    variant = "ws" => Cardinality(LiveSocks) <= 1 /\ Cardinality(timers) <= 1

\* a reconnect has just created a socket: it is the only live one
C2_Reconnected == ev.h = "reconnect" /\ Cardinality(LiveSocks) = 1 /\ timers = {}

\* C3: every close event while the adapter runs sets the connection state to
\* disconnected and leaves exactly one reconnect timer pending (any earlier one
\* replaced), and a pending timer is followed by a new connect attempt unless
\* the adapter is shut down first
C3_CloseLeadsToReconnect ==
    /\ [][\A s \in SockIds : (~unloaded /\ SockClose(s)) =>
             /\ ~connected'
             /\ states'[InfoConnection] = Ack(FALSE)
             /\ timers' = {reconnectTimeout'}]_vars
    /\ (timers # {} /\ ~unloaded) ~> ((ev.h = "reconnect" /\ timers = {}) \/ unloaded)

\* after a close event the timer has fired and the reconnect has created a
\* socket, the connection state being disconnected
C3_Retried ==
    /\ ev.h = "reconnect" /\ ~unloaded /\ ~connected
    /\ InfoConnection \in DOMAIN states /\ states[InfoConnection] = Ack(FALSE)
    /\ sock[ws] = "CONNECTING"

\* the current connection began with subscribe_events, then get_entities
HandshakeDone ==
    Len(wire) >= 2 /\ SubSeq(wire, 1, 2) = <<"subscribe_events", "get_entities">>

\* C4: the open handler sends one subscribe_events and then one get_entities,
\* and nothing else; a socket is open (the state in which its messages are
\* handled) only after these two requests, and a command is sent only on a
\* connection that began with them
C4_HandshakeOnOpen ==
    /\ [](\A s \in SockIds : sock[s] = "OPEN" => (s = ws /\ HandshakeDone))
    /\ [][/\ \A s \in SockIds : (ev'.h = "open" /\ SockOpen(s)) =>
                /\ ev'.out = <<Sent(SubscribeMsg), Sent(GetEntitiesMsg)>>
                /\ wire' = <<"subscribe_events", "get_entities">>
          /\ (ev'.h = "stateChange" /\ OnStateChange /\ ev'.out # <<>>) =>
                /\ HandshakeDone
                /\ \A i \in DOMAIN ev'.out : ev'.out[i].msg = "execute_entity_command"]_vars

\* a reconnected socket has opened (messages of an earlier connection were
\* handled) and the two requests went out again
C4_ReopenedHandshake ==
    /\ ev.h = "open" /\ latest # <<>>
    /\ ev.out = <<Sent(SubscribeMsg), Sent(GetEntitiesMsg)>>
    /\ HandshakeDone

\* a genuine (unacknowledged) write of true to the start trigger of some activity
GenuineStart(n) ==
    /\ n.state.t = "state" /\ ~n.state.ack /\ n.state.val = TRUE
    /\ \E e \in EntityIds : n.id = FixId(StartId(LocalKey(e)))

\* the activity a start trigger belongs to
EntityOf(id) == CHOOSE e \in EntityIds : id = FixId(StartId(LocalKey(e)))

\* C5: a genuine write of true to activities.<K>.start while connected sends
\* exactly one execute_entity_command for uc.main.<K> with activity.start and
\* schedules the reset, which writes false, acknowledged, to the trigger; the
\* reset's own state change sends nothing
C5_StartSendsOneCommand ==
    [][/\ (/\ variant = "ws" /\ notify # <<>> /\ GenuineStart(Head(notify))
           /\ connected /\ OnStateChange) =>
             /\ ev'.out = <<Sent([ExecuteMsg(LocalKey(EntityOf(Head(notify).id))) EXCEPT
                                     !.entity_id = EntityOf(Head(notify).id)])>>
             /\ resets' = Append(resets, Head(notify).id)
       /\ (resets # <<>> /\ ResetFire) => states'[Head(resets)] = Ack(FALSE)
       /\ (notify # <<>> /\ Head(notify).state.ack /\ OnStateChange) => ev'.out = <<>>]_vars

\* the command of a start write went to a socket that was closing: the
\* connection state was still connected, the envelope was not sent
C5_CommandDropped ==
    /\ ev.h = "stateChange" /\ ev.x = "start"
    /\ Len(ev.out) = 1 /\ ev.out[1].rs = "CLOSING"
    /\ resets # <<>>

\* C6: a write handled while the connection state is not connected sends
\* nothing, schedules no reset and leaves nothing behind that a later handler
\* could send (the handler changes nothing but the event it consumed); the
\* trigger keeps the value written; an open handler sends no command
C6_NoSendWhenDisconnected ==
    [][/\ (~connected /\ OnStateChange) =>
             /\ ev'.out = <<>>
             /\ UNCHANGED <<resets, wire, states, objects, subscribed, tasks, timers,
                            sock, ws, connected>>
       /\ \A s \in SockIds : (ev'.h = "open" /\ SockOpen(s)) =>
             \A i \in DOMAIN ev'.out : ev'.out[i].msg # "execute_entity_command"]_vars

\* a start write was handled while disconnected: nothing sent, no reset
\* pending, the trigger still true and unacknowledged
C6_StartDropped ==
    /\ ev = Event("stateChange", "no command") /\ ~connected
    /\ resets = <<>> /\ notify = <<>>
    /\ \E e \in EntityIds :
          /\ FixId(StartId(LocalKey(e))) \in DOMAIN states
          /\ states[FixId(StartId(LocalKey(e)))] = [val |-> TRUE, ack |-> FALSE]

\* C7: when all message handlers have finished, the is_active value of every
\* entity is the one carried by the message about it that arrived last
C7_AppliedInArrivalOrder ==
    (variant = "ws" /\ tasks = <<>>) =>
        \A e \in DOMAIN latest : states[FixId(IsActiveId(LocalKey(e)))].val = latest[e]

\* a state change the handlers ignore: null, or acknowledged
IgnoredChange(n) == n.state.t = "null" \/ n.state.ack

\* C8: in both adapters a state change that is null or acknowledged sends
\* nothing (no command, no HTTP request), schedules no reset and writes no
\* state or object, whatever the id and the connection state
C8_AckIgnored ==
    [][(/\ notify # <<>> /\ IgnoredChange(Head(notify))
        /\ (OnStateChange \/ \E post \in {"ok", "fail"} : RestOnStateChange(post))) =>
           /\ ev'.out = <<>> /\ ev'.log = {}
           /\ UNCHANGED <<states, objects, resets, wire, timers, sock, subscribed>>]_vars

\* the WebSocket adapter, connected, has ignored an acknowledged write of
\* true to a start trigger
C8_AckedStartIgnored ==
    /\ variant = "ws" /\ connected /\ sock[ws] = "OPEN"
    /\ ev = Event("stateChange", "ignored")
    /\ \E e \in EntityIds :
          /\ FixId(StartId(LocalKey(e))) \in DOMAIN states
          /\ states[FixId(StartId(LocalKey(e)))] = Ack(TRUE)

\* C9: a frame that is no valid JSON is logged and dropped: nothing is thrown
\* past the handler, and no state, object, socket, timer or the connection
\* state changes
C9_InvalidJsonDropped ==
    [][\A s \in SockIds : \A f \in Frames :
          (f.syntax = "invalid" /\ OnMessage(s, f)) =>
             /\ ev'.log = {"warn"} /\ ev'.fault = "none" /\ ev'.out = <<>>
             /\ UNCHANGED <<states, objects, subscribed, tasks, connected, ws, sock,
                            reconnectTimeout, timers, resets, notify, wire>>]_vars

\* an invalid frame arrived on a connection that has states, and was dropped
C9_Dropped ==
    /\ ev.h = "message" /\ ev.x = "SyntaxError" /\ ev.fault = "none"
    /\ connected /\ subscribed # {}

\* a message the handler acts on: a successful entities response whose records
\* have names, or a CHANGE event of an activity with state ON or OFF
Matched(m) ==
    /\ m.t # "null"
    /\ \/ IsEntitiesResp(m) /\ \A i \in DOMAIN m.entities : Named(m.entities[i])
       \/ IsChangeEvent(m) /\ m.new_state \in {"ON", "OFF"}

\* C10: a well-formed message of any other kind or shape is ignored: no
\* exception, no rejected handler promise, no change of a host object or state
C10_UnmatchedIgnored ==
    [][\A s \in SockIds : \A f \in Frames :
          (f.syntax = "valid" /\ ~Matched(f.json) /\ OnMessage(s, f)) =>
             /\ ev'.fault = "none"
             /\ UNCHANGED <<states, objects, subscribed>>]_vars

\* handleMessage was given JSON null and its promise was rejected
C10_NullRejected == ev.h = "message" /\ ev.x = "msg.msg" /\ ev.fault = "rejection"

\* the final segment of an id
LastSegment(id) == Split(id)[Len(Split(id))]

\* the is_active node of an entity, as the specification names it
IsActiveOf(entity_id) == FixId(IsActiveId(LastSegment(entity_id)))

\* the CHANGE events of activities that carry a state value
StateEvents ==
    {f \in Frames : /\ f.syntax = "valid" /\ IsChangeEvent(f.json)
                    /\ f.json.new_state \in {"ON", "OFF", "IDLE"}}

\* C11: in every reachable state, the handler of a CHANGE event of an activity
\* with state ON sets the entity's is_active to true, with OFF to false, and
\* with another state value writes nothing; no other state, no object and no
\* subscription changes, and nothing is thrown
C11_EventEffect ==
    variant = "ws" =>
        \A f \in StateEvents :
            HandleMessage(Store, f.json) =
                [st |-> [Store EXCEPT !.states =
                            IF f.json.new_state = "IDLE" THEN states
                            ELSE Put(states, IsActiveOf(f.json.entity_id),
                                     Ack(f.json.new_state = "ON"))],
                 rest |-> <<>>]

\* an ON event has set is_active of an entity that no snapshot has listed
C11_SetByEvent ==
    /\ ev.h = "message" /\ ev.fault = "none"
    /\ FixId(ChannelId(LocalKey(K1))) \notin DOMAIN objects
    /\ IsActiveOf(K1) \in DOMAIN states /\ states[IsActiveOf(K1)] = Ack(TRUE)

\* ------------------------------------------------------------------ entity ids of any shape
\* entity ids of one, two, three and four segments
WideIds ==
    {<<"k1">>, <<"uc", Dot, "k1">>, K1, <<"uc", Dot, "main", Dot, "k1", Dot, "x">>}

WideEntities == [entity_id : WideIds, name : {"de_DE"}, state : EntityStates]

\* entities responses with one record or with the same record twice, and
\* CHANGE events with ON or OFF, for the ids of WideIds
WideFrames ==
    {[syntax |-> "valid", json |-> EntitiesResp(200, <<e>>)] : e \in WideEntities}
    \cup {[syntax |-> "valid", json |-> EntitiesResp(200, <<e, e>>)] : e \in WideEntities}
    \cup {[syntax |-> "valid", json |-> ChangeEvent("CHANGE", id, ns)] :
              id \in WideIds, ns \in {"ON", "OFF"}}

\* the adapter after onReady and the open event of its first socket
WideInit ==
    /\ variant = "ws"
    /\ config = [host |-> <<"hub">>, apikey |-> <<"tok">>]
    /\ pc = "ready"
    /\ ws = 1
    /\ sock = [s \in SockIds |-> IF s = 1 THEN "OPEN" ELSE "NONE"]
    /\ reconnectTimeout = 0
    /\ timers = {}
    /\ connected = TRUE
    /\ unloaded = FALSE
    /\ states = Put(<<>>, InfoConnection, Ack(TRUE))
    /\ objects = <<>>
    /\ subscribed = {}
    /\ notify = <<>>
    /\ resets = <<>>
    /\ tasks = <<>>
    /\ latest = <<>>
    /\ wire = Traced(<<>>, SendCalls("OPEN", OpenRequests))
    /\ nWrites = 0
    /\ ev = [Event("open", "") EXCEPT !.out = SendCalls("OPEN", OpenRequests)]

\* the hub sends frames about entities of any id shape
WideNext ==
    \/ \E f \in WideFrames : OnMessage(ws, f)
    \/ Microtask

WideSpec == WideInit /\ [][WideNext]_vars

\* the nodes of local key k
NodesOf(k) == {FixId(ChannelId(k)), FixId(IsActiveId(k)), FixId(StartId(k))}

\* the entities response that lists the one record e
Single(e) == [syntax |-> "valid", json |-> EntitiesResp(200, <<e>>)]

\* C12: reconciling an entity E whose entity_id ends in segment K makes the
\* channel node activities.<K> and the state node activities.<K>.is_active
\* with the value (state != "OFF"), and no node of another key; reconciling
\* the same record again changes no node and no value
C12_ReconcileNodes ==
    [][/\ \A e \in WideEntities : OnMessage(ws, Single(e)) =>
             /\ FixId(ChannelId(LastSegment(e.entity_id))) \in DOMAIN objects'
             /\ objects'[FixId(ChannelId(LastSegment(e.entity_id)))].type = "channel"
             /\ IsActiveOf(e.entity_id) \in DOMAIN states'
             /\ states'[IsActiveOf(e.entity_id)] = Ack(e.state # "OFF")
             /\ (DOMAIN objects') \ (DOMAIN objects) \subseteq NodesOf(LastSegment(e.entity_id))
       /\ (/\ tasks # <<>> /\ ev.h = "message" /\ latest[Head(Head(tasks)).entity_id] =
                 (Head(Head(tasks)).state # "OFF")
           /\ Microtask) => UNCHANGED <<objects, states, subscribed>>]_vars

\* an entity whose id has four segments was reconciled under its third segment
C12_ThirdSegmentNode ==
    /\ ev.h = "message" /\ DOMAIN latest = {<<"uc", Dot, "main", Dot, "k1", Dot, "x">>}
    /\ FixId(ChannelId(<<"k1">>)) \in DOMAIN objects
    /\ FixId(ChannelId(<<"x">>)) \notin DOMAIN objects

\* for entity ids of three segments: the nodes, the value, and no change when
\* the same record is reconciled again
ReconcileThreeSegments ==
    \A e \in WideEntities : Len(Split(e.entity_id)) = 3 =>
        LET once == CreateOrUpdateActivity(Store, e)
        IN /\ once.threw = ""
           /\ once.objects[FixId(ChannelId(LastSegment(e.entity_id)))].type = "channel"
           /\ once.states[IsActiveOf(e.entity_id)] = Ack(e.state # "OFF")
           /\ (DOMAIN once.objects) \ (DOMAIN objects) \subseteq NodesOf(LastSegment(e.entity_id))
           /\ CreateOrUpdateActivity(once, e) = once

\* the state ids a step writes a new value to
Written == {id \in DOMAIN states' : id \notin DOMAIN states \/ states'[id] # states[id]}

\* C13: the local key of an entity, in the entities response and in the
\* change event alike, is the last segment of its entity_id, however many
\* segments the id has: a frame about one entity writes the is_active state
\* under that last segment and no other state
C13_KeyIsLastSegment ==
    [][/\ \A e \in WideEntities :
             OnMessage(ws, Single(e)) => Written \subseteq {IsActiveOf(e.entity_id)}
       /\ \A id \in WideIds, ns \in {"ON", "OFF"} :
             OnMessage(ws, [syntax |-> "valid", json |-> ChangeEvent("CHANGE", id, ns)])
                 => Written \subseteq {IsActiveOf(id)}]_vars

\* an entity whose id has fewer than three segments got the key "undefined"
C13_UndefinedKey ==
    /\ ev.h = "message"
    /\ FixId(IsActiveId(<<"undefined">>)) \in DOMAIN states
    /\ \A id \in DOMAIN latest : Len(Split(id)) < 3

\* ------------------------------------------------------------------ the REST variant's triggers
\* the channel of the trigger node id (id without its last two segments)
BaseOf(id) == SubSeq(id, 1, Len(id) - 2 - Len(LastSegment(id)) - Len(<<"actions">>))

\* the handler takes the unacknowledged user write at the head of the queue
HandlesUserWrite ==
    /\ variant = "rest" /\ notify # <<>>
    /\ Head(notify).state.t # "null" /\ ~Head(notify).state.ack
    /\ notify' = Tail(notify) /\ ev'.h = "stateChange"

\* C14: a user write to an action trigger ends in one of two ways: the POST
\* succeeded, the trigger is acknowledged and lastUpdate is refreshed; or the
\* dispatch failed, the trigger stays unacknowledged and the node <id>_error
\* holds the failure message
C14_AckOrErrorNode ==
    [][HandlesUserWrite =>
          \E id \in {Head(notify).id} :
             \/ /\ ev'.x = "posted" /\ ev'.out # <<>> /\ ev'.out[1].rs = "ok"
                /\ states'[id] = [val |-> Head(notify).state.val, ack |-> TRUE]
                /\ states'[BaseOf(id) \o <<Dot, "lastUpdate">>] = Ack(<<"now">>)
             \/ /\ ev'.x = "failed"
                /\ ~states'[id].ack
                /\ (id \o <<"_error">>) \in DOMAIN states'
                /\ states'[id \o <<"_error">>] = Ack(<<"err.message">>)]_vars

\* a user write to a trigger was handled: nothing was posted, the trigger is
\* unacknowledged and there is no error node
C14_WriteUnanswered ==
    /\ variant = "rest" /\ ev.h = "stateChange" /\ ev.x = "no match" /\ ev.out = <<>>
    /\ \E id \in DOMAIN states :
          /\ id \in DOMAIN objects /\ objects[id].write
          /\ ~states[id].ack
          /\ (id \o <<"_error">>) \notin DOMAIN states

\* the trigger node made for action a of entity e
TriggerId(e, a) ==
    FixId(e.type \o <<Dot>> \o Sanitize(e.id) \o <<Dot, "actions", Dot>> \o Sanitize(a))

\* C15: a user write to the trigger made for entity E and action A issues a
\* POST addressed to E's original id and to A's literal name, whatever
\* characters the id and the name contain
C15_PostToOriginal ==
    [][\A e \in RestEntities : \A i \in 1..Len(e.actions) :
          (HandlesUserWrite /\ Head(notify).id = TriggerId(e, e.actions[i])) =>
              /\ Len(ev'.out) = 1
              /\ ev'.out[1].msg = "POST"
              /\ ev'.out[1].entity_id = e.id
              /\ ev'.out[1].cmd_id = e.actions[i]]_vars

\* the user wrote to the trigger of the lamp's action turn_on, the handler
\* ran and issued nothing
C15_NothingPosted ==
    /\ variant = "rest" /\ ev.h = "stateChange" /\ ev.out = <<>> /\ notify = <<>>
    /\ \E id \in {TriggerId([type |-> <<"light">>, id |-> <<"lamp">>], <<"turn", "_", "on">>)} :
          id \in DOMAIN states /\ ~states[id].ack

\* ------------------------------------------------------------------ startup and commands
\* the configuration values that are missing, empty or spaces only
MissingOrBlank == {Undefined, <<>>, <<" ">>}

\* C16: with the host or the API token missing or blank, startup is aborted:
\* there is never a socket, a connect attempt, a request or a reconnect timer
C16_BlankConfigNeverConnects ==
    (variant = "ws" /\ (config.host \in MissingOrBlank \/ config.apikey \in MissingOrBlank)) =>
        /\ ws = 0
        /\ \A s \in SockIds : sock[s] = "NONE"
        /\ timers = {} /\ reconnectTimeout = 0
        /\ wire = <<>> /\ ~connected

\* startup was aborted over a host of spaces although the token is set
C16_AbortedOnBlankHost ==
    /\ variant = "ws" /\ pc = "ready"
    /\ ev.h = "ready" /\ ev.x = "aborted" /\ "error" \in ev.log
    /\ config.host = <<" ">> /\ config.apikey = <<"tok">>

\* C17: a start write that is dropped because the connection state is not
\* connected is reported with an error log entry
C17_DropIsLogged ==
    [][(/\ variant = "ws" /\ notify # <<>> /\ GenuineStart(Head(notify))
        /\ ~connected /\ OnStateChange) => "error" \in ev'.log]_vars

\* a start write was dropped while disconnected and the handler logged nothing
C17_SilentDrop ==
    /\ variant = "ws" /\ ~connected
    /\ ev.h = "stateChange" /\ ev.x = "no command" /\ ev.log = {} /\ ev.out = <<>>
    /\ \E e \in EntityIds :
          /\ FixId(StartId(LocalKey(e))) \in DOMAIN states
          /\ states[FixId(StartId(LocalKey(e)))] = [val |-> TRUE, ack |-> FALSE]

\* C18: when the send of the execute command throws, the handler schedules
\* no reset and writes nothing to the trigger, which keeps the value the user
\* wrote, unacknowledged
C18_NoResetAfterFailedSend ==
    [][(/\ variant = "ws" /\ notify # <<>> /\ GenuineStart(Head(notify))
        /\ OnStateChange /\ ev'.x = "start" /\ "error" \in ev'.log) =>
            UNCHANGED <<resets, states>>]_vars

\* the send of a start command threw and the reset of its trigger is pending
C18_ResetAfterFailedSend ==
    /\ variant = "ws" /\ ev.h = "stateChange" /\ ev.x = "start"
    /\ "error" \in ev.log /\ ev.out = <<>>
    /\ resets # <<>>
    /\ states[FixId(resets[Len(resets)])] = [val |-> TRUE, ack |-> FALSE]

\* ------------------------------------------------------------------ errors and the connection state
\* C19: the handler of a transport error changes neither the connection state
\* (the flag and info.connection), nor which socket is the current one or the
\* state of any other socket, nor the reconnect timer; a reconnect timer is
\* scheduled in no step but the handling of a close event
C19_ErrorChangesNothing ==
    [][/\ \A s \in SockIds : (ev'.h = "error" /\ SockError(s)) =>
             /\ UNCHANGED <<connected, states, ws, reconnectTimeout, timers>>
             /\ \A o \in SockIds \ {s} : sock'[o] = sock[o]
             /\ sock'[s] # "CLOSED"
       /\ (timers' \ timers # {}) => ev'.h = "close"]_vars

\* an error event was handled on the open current socket: still connected,
\* no timer pending, the socket not yet closed
C19_ErrorOnly ==
    /\ variant = "ws" /\ ev.h = "error" /\ "error" \in ev.log
    /\ connected /\ states[InfoConnection] = Ack(TRUE)
    /\ timers = {} /\ reconnectTimeout = 0
    /\ sock[ws] = "CLOSING"

\* C20: whenever the connection state is connected the current socket is
\* open, and every subscribe_events, get_entities and execute_entity_command
\* message a handler sends goes to an open socket
C20_ConnectedMeansOpen ==
    variant = "ws" =>
        /\ connected => (ws # 0 /\ sock[ws] = "OPEN")
        /\ \A i \in DOMAIN ev.out : ev.out[i].rs = "OPEN"

\* connected, the current socket closing and its close event not delivered
\* yet: the handler of a start write gave the command to that socket
C20_SentWhileClosing ==
    /\ variant = "ws" /\ connected /\ ws # 0 /\ sock[ws] = "CLOSING"
    /\ ev.h = "stateChange" /\ ev.out # <<>>
    /\ ev.out[1].msg = "execute_entity_command" /\ ev.out[1].rs # "OPEN"

\* ------------------------------------------------------------------ after shutdown
\* C21: once onUnload has run, no step of the adapter writes to the host's
\* state store: not the pending reset of a start trigger and not the close
\* handler of the socket that onUnload closed
C21_NoWritesAfterUnload ==
    [][(variant = "ws" /\ unloaded) => UNCHANGED <<states, objects>>]_vars

\* after onUnload the reset timer of a start trigger fired and wrote false,
\* acknowledged, to the trigger
C21_ResetAfterUnload ==
    /\ variant = "ws" /\ unloaded /\ ev.h = "reset"
    /\ \E e \in EntityIds :
          /\ FixId(StartId(LocalKey(e))) \in DOMAIN states
          /\ states[FixId(StartId(LocalKey(e)))] = Ack(FALSE)

\* ------------------------------------------------------------------ addressing of entities
\* the hub lists entities of any id shape, one per response, and the user
\* writes to the start triggers the adapter made for them
AddrNext ==
    \/ \E e \in WideEntities : OnMessage(ws, Single(e))
    \/ \E id \in subscribed, st \in UserStates : UserWrite(id, st)
    \/ OnStateChange
    \/ ResetFire

AddrSpec == WideInit /\ [][AddrNext]_vars

\* the start trigger the adapter made for the entity with this entity_id
TriggerOf(entity_id) == FixId(StartId(LocalKey(entity_id)))

\* C22: a start write on the trigger made for a reconciled entity E sends a
\* command whose entity_id is E's entity_id, and two reconciled entities with
\* different entity_ids have no local node in common
C22_AddressRoundTrip ==
    [][/\ (/\ notify # <<>> /\ Head(notify).state = StateOf(TRUE, FALSE)
           /\ OnStateChange) =>
              \A e \in DOMAIN latest : Head(notify).id = TriggerOf(e) =>
                  /\ Len(ev'.out) = 1
                  /\ ev'.out[1].msg = "execute_entity_command"
                  /\ ev'.out[1].entity_id = e
       /\ \A e1, e2 \in DOMAIN latest' :
              e1 # e2 => NodesOf(LocalKey(e1)) \cap NodesOf(LocalKey(e2)) = {}]_vars

\* the first half of C22 alone: the command of a start write names the entity
\* the trigger was made for
CommandNamesEntity ==
    [][(/\ notify # <<>> /\ Head(notify).state = StateOf(TRUE, FALSE)
        /\ OnStateChange) =>
           \A e \in DOMAIN latest : Head(notify).id = TriggerOf(e) =>
               Len(ev'.out) = 1 /\ ev'.out[1].entity_id = e]_vars

\* only the entity uc.main.k1.x was reconciled, and the start write on its
\* trigger sent a command for uc.main.k1
C22_WrongAddress ==
    /\ DOMAIN latest = {<<"uc", Dot, "main", Dot, "k1", Dot, "x">>}
    /\ ev.h = "stateChange" /\ ev.x = "start" /\ Len(ev.out) = 1
    /\ ev.out[1].entity_id = K1

====
